---------------------------- MODULE Spec2Model ----------------------------
(***************************************************************************)
(* Model of the animation scheduler of beautiful-mermaid                   *)
(* (src/src/animation.ts: resolveAnimation, cssEasingToSmil,               *)
(* computeDelays, buildAnimationCSS) and of the parts of the SVG renderer  *)
(* that consume a positioned layout (src/dist/index.d.ts, renderSvg).      *)
(*                                                                         *)
(* Numbers.  The code computes delays in JavaScript doubles.  The model    *)
(* computes them exactly, in hundredths of a millisecond (1 ms = 100       *)
(* units): `duration`, `stagger` and `groupDelay` are whole milliseconds,  *)
(* `nodeOverlap` is given in percent (35 stands for 0.35), and so          *)
(*    stagger * 0.5          is  stagger * 50   units,                     *)
(*    duration * nodeOverlap is  duration * nodeOverlap units,             *)
(*    duration * 0.6         is  duration * 60  units.                     *)
(***************************************************************************)
EXTENDS Integers, Sequences, FiniteSets, TLC

VARIABLES
    pc,             \* position of the running call: "idle", "nodes", "done", "emit", "rendered", "converted",
                    \* "resolved", "changed", "later"
    mode,           \* which entry point is running: "none", "delays", "render"
    graph,          \* the PositionedGraph object passed in (its current content)
    opts,           \* the ResolvedAnimation object passed in, or Null
    graph0,         \* content of the layout object when the call was entered
    opts0,          \* content of the options object when the call was entered
    animate,        \* the caller's `animate` option that resolveAnimation resolved
    nodes,          \* Map nodeId -> delay      (animation.ts:90)
    edges,          \* Map edge index -> delay  (animation.ts:91)
    groups,         \* Map groupId -> delay     (animation.ts:92)
    incomingEdges,  \* Map nodeId -> edge indices targeting it (animation.ts:97)
    rankBuckets,    \* Map rank -> nodes of that rank, sorted by x (animation.ts:105)
    sortedRanks,    \* ascending list of the ranks (animation.ts:116)
    ri,             \* index into sortedRanks of the rank being processed (1-based)
    bi,             \* index `i` into the current bucket (0-based, animation.ts:123)
    visits,         \* how many times each node was assigned a delay in this call
    drawn,          \* per edge index, the point list renderSvg drew it from
    memo,           \* a call the caller kept: [graph, opts, result, since, other], or Null
    defaultsObject, \* the module's DEFAULTS object (its current content, animation.ts:22)
    easingIn,       \* the string cssEasingToSmil was called with, or Null
    smil,           \* the value cssEasingToSmil returned, or Null
    svg             \* the document renderSvg has built, or Null

vars == << pc, mode, graph, opts, graph0, opts0, animate, nodes, edges, groups,
           incomingEdges, rankBuckets, sortedRanks, ri, bi, visits, drawn, memo, defaultsObject, easingIn, smil, svg >>

(***************************************************************************)
(* Bounds of the model                                                     *)
(***************************************************************************)
\* nodes and edges of the exhaustively enumerated layouts
MaxNodes == 2
MaxEdges == 2
\* calls a caller makes after the one whose schedule it keeps
MaxCalls == 2

(***************************************************************************)
(* Generic helpers: JavaScript Map, null                                   *)
(***************************************************************************)
Null == [kind |-> "null"]

EmptyMap == [k \in {} |-> 0]

MapHas(m, k) == k \in DOMAIN m

MapSet(m, k, v) == [x \in (DOMAIN m) \cup {k} |-> IF x = k THEN v ELSE m[x]]

\* edges.get(edgeIdx) ?? 0
MapGetOr0(m, k) == IF k \in DOMAIN m THEN m[k] ELSE 0

Max2(a, b) == IF a >= b THEN a ELSE b

SetMax(S) == CHOOSE m \in S : \A y \in S : m >= y

(***************************************************************************)
(* Program constants                                                       *)
(***************************************************************************)
DefaultsOfTypeComments ==
    [ duration      |-> 600,
      stagger       |-> 80,
      groupDelay    |-> -60,
      nodeOverlap   |-> 30,
      nodeEasing    |-> << "ease" >>,
      edgeEasing    |-> << "ease-in-out" >>,
      nodeAnimation |-> "fade",
      edgeAnimation |-> "draw",
      reducedMotion |-> TRUE ]

DEFAULTS ==
    [ duration      |-> 650,
      stagger       |-> 0,
      groupDelay    |-> 110,
      nodeOverlap   |-> 35,
      nodeEasing    |-> << "ease" >>,
      edgeEasing    |-> << "ease-in-out" >>,
      nodeAnimation |-> "fade",
      edgeAnimation |-> "draw",
      reducedMotion |-> TRUE ]

\* 0.6, in percent
GROUP_REVEAL_PROGRESS == 60

OptionNames == DOMAIN DEFAULTS

(***************************************************************************)
(* resolveAnimation: false/undefined -> null, true -> a copy of DEFAULTS,  *)
(* an object -> DEFAULTS overlaid with the fields the object carries.      *)
(* `animate` is [kind |-> "off"], [kind |-> "true"] or                     *)
(* [kind |-> "object", fields |-> a function on a subset of OptionNames,   *)
(*  undef |-> the keys the object carries with the value undefined].       *)
(* A record of the model has in its DOMAIN the fields whose value is       *)
(* defined: reading any other field gives undefined.                       *)
(***************************************************************************)
\* { ...DEFAULTS, ...animate }: every own key of `animate` replaces the
\* default, a key whose value is undefined included (animation.ts:40)
SpreadOver(defaults, a) ==
    [f \in (DOMAIN defaults \cup DOMAIN a.fields) \ a.undef |->
        IF f \in DOMAIN a.fields THEN a.fields[f] ELSE defaults[f]]

resolveAnimation(a) ==
    IF a.kind = "off" THEN Null
    ELSE IF a.kind = "true" THEN defaultsObject
    ELSE SpreadOver(defaultsObject, a)

\* whether the object resolveAnimation returns is the DEFAULTS object
\* itself: never, both returns build a new object literal (animation.ts:39-40)
ReturnsDefaultsItself == FALSE

(***************************************************************************)
(* computeDelays, set-up phase (animation.ts:94-116)                       *)
(***************************************************************************)
\* const withinRankStagger = opts.stagger * 0.5
withinRankStagger(o) == o.stagger * 50

RankOfUnrankedApart(node) == IF "rank" \in DOMAIN node THEN node.rank ELSE -1

\* node.rank ?? 0
RankOf(node) == IF "rank" \in DOMAIN node THEN node.rank ELSE 0

\* incoming edge indices (0-based, ascending) of node id `id`
IncomingOf(g, id) ==
    LET F[k \in 0..Len(g.edges)] ==
            IF k = 0 THEN << >>
            ELSE IF g.edges[k].target = id THEN Append(F[k - 1], k - 1)
                 ELSE F[k - 1]
    IN F[Len(g.edges)]

BuildIncomingEdges(g) ==
    [id \in {g.edges[k].target : k \in 1..Len(g.edges)} |-> IncomingOf(g, id)]

NoSort(s) == s

InsertByXBeforeEqual(s, n) ==
    LET p == Cardinality({k \in 1..Len(s) : s[k].x < n.x})
    IN SubSeq(s, 1, p) \o << n >> \o SubSeq(s, p + 1, Len(s))

\* Array.prototype.sort((a, b) => a.x - b.x): a stable sort by x
InsertByX(s, n) ==
    LET p == Cardinality({k \in 1..Len(s) : s[k].x <= n.x})
    IN SubSeq(s, 1, p) \o << n >> \o SubSeq(s, p + 1, Len(s))

SortByX(s) ==
    LET F[k \in 0..Len(s)] == IF k = 0 THEN << >> ELSE InsertByX(F[k - 1], s[k])
    IN F[Len(s)]

\* the nodes of rank r in node-list order
BucketOfAnyRank(ns, r) == ns

BucketOf(ns, r) == SelectSeq(ns, LAMBDA n : RankOf(n) = r)

BuildRankBuckets(g) ==
    [r \in {RankOf(g.nodes[k]) : k \in 1..Len(g.nodes)} |-> SortByX(BucketOf(g.nodes, r))]

\* [...rankBuckets.keys()].sort((a, b) => a - b)
SortAscending(S) ==
    LET F[k \in 0..Cardinality(S)] ==
            IF k = 0 THEN << >>
            ELSE LET done == {F[k - 1][j] : j \in 1..(k - 1)}
                 IN Append(F[k - 1], CHOOSE m \in S \ done : \A y \in S \ done : m <= y)
    IN F[Cardinality(S)]

\* What the bucketing and sorting leave in graph.nodes: the buckets are new
\* arrays, and it is the buckets that are sorted, so the list is as it was.
NodesAfterBucketing(ns) == ns

(***************************************************************************)
(* computeDelays, one iteration of the inner loop (animation.ts:123-149)   *)
(***************************************************************************)
latestEdgeEndFirstOnly(incoming, edgeMap, o) ==
    MapGetOr0(edgeMap, incoming[1]) + o.duration * 100

\* latestEdgeEnd after the loop over `incoming` (animation.ts:134-138)
latestEdgeEnd(incoming, edgeMap, o) ==
    LET F[k \in 0..Len(incoming)] ==
            IF k = 0 THEN 0
            ELSE Max2(F[k - 1], MapGetOr0(edgeMap, incoming[k]) + o.duration * 100)
    IN F[Len(incoming)]

NodeDelayOverlapAdded(node, rank, i, inc, edgeMap, o) ==
    IF ~MapHas(inc, node.id) \/ Len(inc[node.id]) = 0
    THEN rank * o.stagger * 100 + i * withinRankStagger(o)
    ELSE latestEdgeEnd(inc[node.id], edgeMap, o) + o.duration * o.nodeOverlap
             + i * withinRankStagger(o)

\* the delay given to `node`, the i-th node of rank `rank` (animation.ts:125-140)
NodeDelay(node, rank, i, inc, edgeMap, o) ==
    IF ~MapHas(inc, node.id) \/ Len(inc[node.id]) = 0
    THEN rank * o.stagger * 100 + i * withinRankStagger(o)
    ELSE latestEdgeEnd(inc[node.id], edgeMap, o) - o.duration * o.nodeOverlap
             + i * withinRankStagger(o)

\* the edge map after the loop over the node's outgoing edges (animation.ts:143-148)
OutgoingDelayNoDuration(nodeDelay, o) == nodeDelay

OutgoingDelay(nodeDelay, o) == nodeDelay + o.duration * 100

SetOutgoingFirstOnly(g, id, nodeDelay, edgeMap, o) ==
    LET out == {k \in 0..(Len(g.edges) - 1) : g.edges[k + 1].source = id}
        first == IF out = {} THEN {} ELSE {CHOOSE k \in out : \A j \in out : k <= j}
    IN [k \in (DOMAIN edgeMap) \cup first |->
           IF k \in first THEN OutgoingDelay(nodeDelay, o) ELSE edgeMap[k]]

SetOutgoing(g, id, nodeDelay, edgeMap, o) ==
    LET out == {k \in 0..(Len(g.edges) - 1) : g.edges[k + 1].source = id}
    IN [k \in (DOMAIN edgeMap) \cup out |->
           IF k \in out THEN OutgoingDelay(nodeDelay, o) ELSE edgeMap[k]]

(***************************************************************************)
(* collectGroupDelays (animation.ts:161-183)                               *)
(***************************************************************************)
\* the bounding-box test of animation.ts:176-177
InsideBox(node, group) ==
    /\ node.x >= group.x
    /\ node.x + node.width <= group.x + group.width
    /\ node.y >= group.y
    /\ node.y + node.height <= group.y + group.height

GroupMaxDelayLastNode(group, allNodes, nodeDelays) ==
    LET F[k \in 0..Len(allNodes)] ==
            IF k = 0 THEN 0
            ELSE LET node == allNodes[k]
                 IN IF MapHas(nodeDelays, node.id) /\ InsideBox(node, group)
                    THEN nodeDelays[node.id]
                    ELSE F[k - 1]
    IN F[Len(allNodes)]

\* maxDelay after the loop over allNodes (animation.ts:172-180)
GroupMaxDelay(group, allNodes, nodeDelays) ==
    LET F[k \in 0..Len(allNodes)] ==
            IF k = 0 THEN 0
            ELSE LET node == allNodes[k]
                 IN IF /\ MapHas(nodeDelays, node.id)
                       /\ InsideBox(node, group)
                       /\ nodeDelays[node.id] > F[k - 1]
                    THEN nodeDelays[node.id]
                    ELSE F[k - 1]
    IN F[Len(allNodes)]

\* out.set(group.id, maxDelay + opts.duration * GROUP_REVEAL_PROGRESS + opts.groupDelay)
GroupDelay(group, allNodes, o, nodeDelays) ==
    GroupMaxDelay(group, allNodes, nodeDelays)
        + o.duration * GROUP_REVEAL_PROGRESS + o.groupDelay * 100

RECURSIVE collectGroupDelays(_, _, _, _, _)
collectGroupDelays(gs, allNodes, o, nodeDelays, out) ==
    IF Len(gs) = 0 THEN out
    ELSE LET group == Head(gs)
             sub  == collectGroupDelays(group.children, allNodes, o, nodeDelays, out)
         IN collectGroupDelays(Tail(gs), allNodes, o, nodeDelays,
                MapSet(sub, group.id, GroupDelay(group, allNodes, o, nodeDelays)))

\* the group ids in the order of the out.set calls of collectGroupDelays: the
\* recursion into group.children comes before the group's own out.set
\* (animation.ts:167-168, 181); it is the key order of the `groups` Map
RECURSIVE collectGroupOrder(_)
collectGroupOrder(gs) ==
    IF Len(gs) = 0 THEN << >>
    ELSE collectGroupOrder(Head(gs).children) \o << Head(gs).id >>
             \o collectGroupOrder(Tail(gs))

(***************************************************************************)
(* computeDelays as a function of (graph, opts): the loops of              *)
(* animation.ts:121-150 run to their end, then collectGroupDelays          *)
(***************************************************************************)
\* the nodes in processing order, each with its rank and its index in the bucket
ProcessingOrder(g) ==
    LET buckets == BuildRankBuckets(g)
        ranks   == SortAscending(DOMAIN buckets)
        F[r \in 0..Len(ranks)] ==
            IF r = 0 THEN << >>
            ELSE F[r - 1] \o [i \in 1..Len(buckets[ranks[r]]) |->
                                 [rank |-> ranks[r], i |-> i - 1,
                                  node |-> buckets[ranks[r]][i]]]
    IN F[Len(ranks)]

computeDelays(g, o) ==
    LET order == ProcessingOrder(g)
        inc   == BuildIncomingEdges(g)
        F[k \in 0..Len(order)] ==
            IF k = 0 THEN [nodes |-> EmptyMap, edges |-> EmptyMap]
            ELSE LET s == order[k]
                     d == NodeDelay(s.node, s.rank, s.i, inc, F[k - 1].edges, o)
                 IN [nodes |-> MapSet(F[k - 1].nodes, s.node.id, d),
                     edges |-> SetOutgoing(g, s.node.id, d, F[k - 1].edges, o)]
        last  == F[Len(order)]
    IN [nodes  |-> last.nodes,
        edges  |-> last.edges,
        groups |-> collectGroupDelays(g.groups, g.nodes, o, last.nodes, EmptyMap)]

(***************************************************************************)
(* cssEasingToSmil (animation.ts:51-71).                                   *)
(* A JavaScript string is the sequence of its characters.  The function    *)
(* token "cubic-bezier(" and every easing keyword or property name is      *)
(* written as one symbol of the sequence: the code compares them only as   *)
(* wholes (a property key, a regular-expression literal).                  *)
(***************************************************************************)
\* the result of reading a property that does not exist
Undefined == [kind |-> "undefined"]

NAMED_EASINGS ==
    ("ease"          :> << "0", ".", "2", "5", " ", "0", ".", "1", " ", "0", ".", "2", "5", " ", "1" >>)
    @@ ("ease-in"     :> << "0", ".", "4", "2", " ", "0", " ", "1", " ", "1" >>)
    @@ ("ease-out"    :> << "0", " ", "0", " ", "0", ".", "5", "8", " ", "1" >>)
    @@ ("ease-in-out" :> << "0", ".", "4", "2", " ", "0", " ", "0", ".", "5", "8", " ", "1" >>)
    @@ ("linear"      :> << "0", " ", "0", " ", "1", " ", "1" >>)

\* NAMED_EASINGS is an object literal: a key it does not define is looked up
\* on Object.prototype
ObjectPrototypeKeys ==
    { "constructor", "toString", "valueOf", "hasOwnProperty", "__proto__" }

InheritedKey(easing) == Len(easing) = 1 /\ easing[1] \in ObjectPrototypeKeys

\* a JavaScript string value
JsString(chars) == [kind |-> "string", text |-> chars]

\* NAMED_EASINGS[easing] (animation.ts:62): the string of an own key, the
\* member of Object.prototype of an inherited key, or undefined
NamedLookup(easing) ==
    IF Len(easing) = 1 /\ easing[1] \in DOMAIN NAMED_EASINGS
    THEN JsString(NAMED_EASINGS[easing[1]])
    ELSE IF InheritedKey(easing)
         THEN [kind |-> "inherited", key |-> easing[1]]
         ELSE Undefined

\* \s
IsSpace(c) == c = " "

NumCharDigitsOnly(c) ==
    c \in {"0", "1", "2", "3", "4", "5", "6", "7", "8", "9"}

\* [\d.]
IsNumChar(c) ==
    c \in {"0", "1", "2", "3", "4", "5", "6", "7", "8", "9", "."}

\* the first position from i on that does not hold a space (\s*, greedy)
RECURSIVE SkipSpaces(_, _)
SkipSpaces(s, i) ==
    IF i <= Len(s) /\ IsSpace(s[i]) THEN SkipSpaces(s, i + 1) ELSE i

\* the first position from i on that does not hold a digit or dot ([\d.]+, greedy)
RECURSIVE NumEnd(_, _)
NumEnd(s, i) ==
    IF i <= Len(s) /\ IsNumChar(s[i]) THEN NumEnd(s, i + 1) ELSE i

\* \s*([\d.]+)\s* followed by the delimiter, from position i
MatchArg(s, i, delim) ==
    LET a == SkipSpaces(s, i)
        b == NumEnd(s, a)
        c == SkipSpaces(s, b)
    IN IF b > a /\ c <= Len(s) /\ s[c] = delim
       THEN [ok |-> TRUE, text |-> SubSeq(s, a, b - 1), next |-> c + 1]
       ELSE [ok |-> FALSE, text |-> << >>, next |-> i]

\* the regular expression of animation.ts:66 tried at position i
MatchAt(s, i) ==
    LET m1 == MatchArg(s, i + 1, ",")
        m2 == MatchArg(s, m1.next, ",")
        m3 == MatchArg(s, m2.next, ",")
        m4 == MatchArg(s, m3.next, ")")
    IN IF s[i] = "cubic-bezier(" /\ m1.ok /\ m2.ok /\ m3.ok /\ m4.ok
       THEN [ok |-> TRUE, groups |-> << m1.text, m2.text, m3.text, m4.text >>]
       ELSE [ok |-> FALSE, groups |-> << >>]

\* easing.match(/cubic-bezier\(...\)/): the leftmost match, or Null
EasingMatch(s) ==
    LET starts == {i \in 1..Len(s) : MatchAt(s, i).ok}
    IN IF starts = {} THEN Null
       ELSE MatchAt(s, CHOOSE i \in starts : \A j \in starts : i <= j)

\* the fallback of animation.ts:70
FALLBACK_EASING == << "0", " ", "0", " ", "0", ".", "5", "8", " ", "1" >>

cssEasingToSmil(easing) ==
    LET named == NamedLookup(easing)
        match == EasingMatch(easing)
    IN IF named # Undefined THEN named
       ELSE IF match # Null
            THEN JsString(match.groups[1] \o << " " >> \o match.groups[2] \o << " " >>
                              \o match.groups[3] \o << " " >> \o match.groups[4])
            ELSE JsString(FALLBACK_EASING)

(***************************************************************************)
(* renderSvg: the edge point lists (index.d.ts:467-506, 661-713).          *)
(* Edge segments of the model are axis-aligned, so the length              *)
(* sqrt(dx*dx + dy*dy) of a segment is |dx| + |dy| and dx / d is the sign  *)
(* of dx.                                                                  *)
(***************************************************************************)
\* ARROW_HEAD.width (styles.ts)
ARROW_HEAD_width == 8

Abs(v) == IF v < 0 THEN -v ELSE v

Sign(v) == IF v < 0 THEN -1 ELSE IF v > 0 THEN 1 ELSE 0

SegLen(a, b) == Abs(b.x - a.x) + Abs(b.y - a.y)

SharePoints(points) == [pts |-> points, shared |-> TRUE]

\* const pts = edge.points.map(p => ({ ...p })): a new array of new points,
\* sharing nothing with edge.points
CopyPoints(points) == [pts |-> points, shared |-> FALSE]

\* the pull-back of the last point by ARROW_HEAD.width + 2 (index.d.ts:487-496, 688-696)
PullBack(pts) ==
    LET pullback == ARROW_HEAD_width + 2
        last == pts[Len(pts)]
        prev == pts[Len(pts) - 1]
        dx   == last.x - prev.x
        dy   == last.y - prev.y
        d    == SegLen(prev, last)
    IN IF d > pullback
       THEN [pts EXCEPT ![Len(pts)] = [x |-> last.x - Sign(dx) * pullback,
                                       y |-> last.y - Sign(dy) * pullback]]
       ELSE pts

\* the while loop of renderEdge that merges short trailing segments (index.d.ts:678-685)
RECURSIVE MergeShortTail(_)
MergeShortTail(pts) ==
    IF Len(pts) >= 3 /\ SegLen(pts[Len(pts) - 1], pts[Len(pts)]) < ARROW_HEAD_width + 2
    THEN MergeShortTail(SubSeq(pts, 1, Len(pts) - 2) \o << pts[Len(pts)] >>)
    ELSE pts

\* renderEdge: the points the static edge is drawn from, and the edge object afterwards
renderEdge(edge) ==
    IF Len(edge.points) < 2 THEN [pts |-> << >>, edge |-> edge]
    ELSE LET c   == CopyPoints(edge.points)
             pts == IF edge.hasArrowEnd /\ Len(c.pts) >= 2
                    THEN PullBack(MergeShortTail(c.pts))
                    ELSE c.pts
         IN [pts |-> pts,
             edge |-> IF c.shared THEN [edge EXCEPT !.points = pts] ELSE edge]

\* renderAnimatedEdge: a dotted edge goes through renderEdge, the others are
\* drawn from a pulled-back copy of the points
renderAnimatedEdge(edge) ==
    IF Len(edge.points) < 2 THEN [pts |-> << >>, edge |-> edge]
    ELSE IF edge.style = "dotted" THEN renderEdge(edge)
    ELSE LET c   == CopyPoints(edge.points)
             pts == IF edge.hasArrowEnd /\ Len(c.pts) >= 2 THEN PullBack(c.pts) ELSE c.pts
         IN [pts |-> pts,
             edge |-> IF c.shared THEN [edge EXCEPT !.points = pts] ELSE edge]

\* the edge loop of renderSvg (index.d.ts:399-412)
RenderOneEdge(edge, i, delays, anim) ==
    IF anim # Null /\ MapHas(delays, i) /\ anim.edgeAnimation = "draw"
    THEN renderAnimatedEdge(edge)
    ELSE renderEdge(edge)

(***************************************************************************)
(* renderSvg: the emitted document (index.d.ts:338-461), as the list of    *)
(* its parts.  A part is what one parts.push sequence emits for one item:  *)
(* the class and --d variable of its <g> wrapper ("" and Null when there   *)
(* is no wrapper) and the elements inside.  An element carries its tag,    *)
(* id, class, whether it has opacity="0", its marker references and its    *)
(* SMIL children.                                                          *)
(***************************************************************************)
Part(what, of, class, d, content) ==
    [what |-> what, of |-> of, class |-> class, d |-> d, content |-> content]

Element(tag, id, opacity0, markers, smilChildren) ==
    [tag |-> tag, id |-> id, class |-> "", opacity0 |-> opacity0,
     markers |-> markers, smil |-> smilChildren]

PlainElement(tag) == Element(tag, Null, FALSE, {}, << >>)

\* the keyframes that take opacity from 0 to 1 (animation.ts:199-201)
FadeKeyframes == {"a-fade", "a-fade-up", "a-scale"}

\* buildAnimationCSS(opts) (animation.ts:190-224): the keyframe of each
\* class rule and the selectors of the reduced-motion block
buildAnimationCSS(o) ==
    LET nodeKeyframe == IF o.nodeAnimation = "fade-up" THEN "a-fade-up"
                        ELSE IF o.nodeAnimation = "scale" THEN "a-scale"
                        ELSE "a-fade"
    IN [rules |->
            [an  |-> [keyframe |-> nodeKeyframe, duration |-> o.duration, easing |-> o.nodeEasing],
             ag  |-> [keyframe |-> "a-fade", duration |-> o.duration, easing |-> o.nodeEasing],
             ae  |-> [keyframe |-> "a-draw", duration |-> o.duration, easing |-> o.edgeEasing],
             ael |-> [keyframe |-> "a-fade", duration |-> o.duration, easing |-> o.nodeEasing]],
        reducedMotionBlock |-> o.reducedMotion,
        reducedMotionSelectors |->
            IF o.reducedMotion THEN {"an", "ag", "ae", "ael", "aa"} ELSE {}]

\* (x / 1000).toFixed(3) of a time x given in hundredths of a millisecond:
\* the time in whole milliseconds (a tie is rounded up)
ToFixed3(units) == (units + 50) \div 100

\* `e${edgeIndex}`
PathId(edgeIndex) == << "e", edgeIndex >>

\* smilSplines, durS, beginS (index.d.ts:513-515)
SmilTiming(delay, anim) ==
    [keySplines |-> cssEasingToSmil(anim.edgeEasing),
     dur        |-> ToFixed3(anim.duration * 100),
     begin      |-> ToFixed3(delay)]

\* <set attributeName="opacity" to="1" begin=... />
SmilSet(timing) == [tag |-> "set", begin |-> timing.begin]

\* the <path> of an animated edge with its <animate> (index.d.ts:518-526)
AnimatedLine(pathId, timing) ==
    Element("path", pathId, TRUE, {},
            << [tag |-> "animate", dur |-> timing.dur, begin |-> timing.begin,
                keySplines |-> timing.keySplines],
               SmilSet(timing) >>)

AnimatedArrowOwnClock(keyPoints, pathId, timing) ==
    Element("polygon", Null, TRUE, {},
            << [tag |-> "animateMotion", dur |-> timing.dur, begin |-> 0,
                keySplines |-> timing.keySplines, keyPoints |-> keyPoints,
                mpath |-> pathId],
               SmilSet(timing) >>)

\* the <polygon> of an animated arrowhead with its <animateMotion>
\* (index.d.ts:529-541, 545-557)
AnimatedArrow(keyPoints, pathId, timing) ==
    Element("polygon", Null, TRUE, {},
            << [tag |-> "animateMotion", dur |-> timing.dur, begin |-> timing.begin,
                keySplines |-> timing.keySplines, keyPoints |-> keyPoints,
                mpath |-> pathId],
               SmilSet(timing) >>)

\* the element renderEdge returns (index.d.ts:661-713)
renderEdgeSvg(edge) ==
    LET pts     == renderEdge(edge).pts
        markers == (IF edge.hasArrowEnd THEN {"arrowhead"} ELSE {})
                       \cup (IF edge.hasArrowStart THEN {"arrowhead-start"} ELSE {})
    IN IF Len(edge.points) < 2 THEN << >>
       ELSE << Element(IF Len(pts) > 2 THEN "path" ELSE "polyline",
                       Null, FALSE, markers, << >>) >>

renderAnimatedEdgeSvgDottedDrawn(edge, edgeIndex, delay, anim) ==
    IF Len(edge.points) < 2 THEN << >>
    ELSE LET timing == SmilTiming(delay, anim)
             pathId == PathId(edgeIndex)
         IN << Part("edge", edgeIndex, "", Null,
                    << AnimatedLine(pathId, timing) >>
                        \o (IF edge.hasArrowEnd
                            THEN << AnimatedArrow("0;1", pathId, timing) >> ELSE << >>)
                        \o (IF edge.hasArrowStart
                            THEN << AnimatedArrow("1;0", pathId, timing) >> ELSE << >>)) >>

\* what renderAnimatedEdge returns (index.d.ts:467-560)
renderAnimatedEdgeSvg(edge, edgeIndex, delay, anim) ==
    IF Len(edge.points) < 2 THEN << >>
    ELSE IF edge.style = "dotted"
    THEN << Part("edge", edgeIndex, "an", delay, renderEdgeSvg(edge)) >>
    ELSE LET timing == SmilTiming(delay, anim)
             pathId == PathId(edgeIndex)
         IN << Part("edge", edgeIndex, "", Null,
                    << AnimatedLine(pathId, timing) >>
                        \o (IF edge.hasArrowEnd
                            THEN << AnimatedArrow("0;1", pathId, timing) >> ELSE << >>)
                        \o (IF edge.hasArrowStart
                            THEN << AnimatedArrow("1;0", pathId, timing) >> ELSE << >>)) >>

\* the rects renderGroupBackground emits for a group and its descendants
\* (index.d.ts:589-600); renderGroupLabels recurses the same way (626-639)
RECURSIVE GroupElements(_, _)
GroupElements(gs, tag) ==
    IF Len(gs) = 0 THEN << >>
    ELSE << PlainElement(tag) >> \o GroupElements(Head(gs).children, tag)
             \o GroupElements(Tail(gs), tag)

\* 1. group backgrounds (index.d.ts:387-397)
GroupBackgroundParts(g, delays, anim) ==
    [k \in 1..Len(g.groups) |->
        LET group == g.groups[k]
        IN IF anim # Null /\ MapHas(delays.groups, group.id)
           THEN Part("groupBackground", group.id, "ag", delays.groups[group.id],
                     << PlainElement("rect") >>)
           ELSE Part("groupBackground", group.id, "", Null,
                     GroupElements(<< group >>, "rect"))]

\* 2. edges (index.d.ts:399-412)
RECURSIVE EdgeParts(_, _, _, _)
EdgeParts(g, delays, anim, i) ==
    IF i >= Len(g.edges) THEN << >>
    ELSE LET edge == g.edges[i + 1]
             has  == anim # Null /\ MapHas(delays.edges, i)
             here == IF has /\ anim.edgeAnimation = "draw"
                     THEN renderAnimatedEdgeSvg(edge, i, delays.edges[i], anim)
                     ELSE IF has /\ anim.edgeAnimation = "fade"
                     THEN << Part("edge", i, "an", delays.edges[i], renderEdgeSvg(edge)) >>
                     ELSE << Part("edge", i, "", Null, renderEdgeSvg(edge)) >>
         IN here \o EdgeParts(g, delays, anim, i + 1)

\* 3. group header labels (index.d.ts:414-424)
GroupLabelParts(g, delays, anim) ==
    [k \in 1..Len(g.groups) |->
        LET group == g.groups[k]
        IN IF anim # Null /\ MapHas(delays.groups, group.id)
           THEN Part("groupLabel", group.id, "an", delays.groups[group.id],
                     << PlainElement("text") >>)
           ELSE Part("groupLabel", group.id, "", Null,
                     GroupElements(<< group >>, "text"))]

\* 4. edge labels (index.d.ts:426-439)
RECURSIVE EdgeLabelParts(_, _, _, _)
EdgeLabelParts(g, delays, anim, i) ==
    IF i >= Len(g.edges) THEN << >>
    ELSE LET here == IF "label" \notin DOMAIN g.edges[i + 1] THEN << >>
                     ELSE IF anim # Null /\ MapHas(delays.edges, i)
                     THEN << Part("edgeLabel", i, "ael", delays.edges[i],
                                  << PlainElement("text") >>) >>
                     ELSE << Part("edgeLabel", i, "", Null, << PlainElement("text") >>) >>
         IN here \o EdgeLabelParts(g, delays, anim, i + 1)

\* 5+6. nodes (index.d.ts:441-457)
NodeParts(g, delays, anim) ==
    IF anim # Null
    THEN [k \in 1..Len(g.nodes) |->
             Part("node", g.nodes[k].id, "an", MapGetOr0(delays.nodes, g.nodes[k].id),
                  << PlainElement("shape"), PlainElement("text") >>)]
    ELSE [k \in 1..Len(g.nodes) |->
             Part("nodeShape", g.nodes[k].id, "", Null, << PlainElement("shape") >>)]
         \o [k \in 1..Len(g.nodes) |->
             Part("nodeLabel", g.nodes[k].id, "", Null, << PlainElement("text") >>)]

MarkerDefsWhenAnimated(anim) == anim # Null

\* arrowMarkerDefs() is pushed only when not animated (index.d.ts:373-377)
MarkerDefsEmitted(anim) == anim = Null

\* the document renderSvg returns: the animation stylesheet (Null if none),
\* whether <defs> holds the arrow markers, and the parts in order
SvgDocument(g, delays, anim) ==
    [style      |-> IF anim # Null THEN buildAnimationCSS(anim) ELSE Null,
     markerDefs |-> MarkerDefsEmitted(anim),
     parts      |-> GroupBackgroundParts(g, delays, anim)
                        \o EdgeParts(g, delays, anim, 0)
                        \o GroupLabelParts(g, delays, anim)
                        \o EdgeLabelParts(g, delays, anim, 0)
                        \o NodeParts(g, delays, anim)]

(***************************************************************************)
(* Inputs: the positioned layouts and `animate` options the calls are      *)
(* made with.  Node ids are 1..n in node-list order; every node is a       *)
(* unit box on the row y = 0.                                              *)
(***************************************************************************)
Node(k, x, r) == [id |-> k, x |-> x, y |-> 0, width |-> 1, height |-> 1, rank |-> r]

\* a node of a layout whose strategy produces no ranks (types.ts:88-89)
Unranked(k, x) == [id |-> k, x |-> x, y |-> 0, width |-> 1, height |-> 1]

Point(x, y) == [x |-> x, y |-> y]

StraightPoints == << Point(0, 0), Point(0, 40) >>

Edge(s, t) ==
    [source |-> s, target |-> t, style |-> "solid",
     hasArrowStart |-> FALSE, hasArrowEnd |-> TRUE, points |-> StraightPoints]

Group(id, box, children) ==
    [id |-> id, x |-> box.x, y |-> box.y, width |-> box.width, height |-> box.height,
     children |-> children]

Graph(ns, es, gs) ==
    [width |-> 100, height |-> 100, nodes |-> ns, edges |-> es, groups |-> gs]

Xs == {0, 1}

Ranks == {0, 1}

\* every list of n nodes with x in Xs and rank in Ranks
NodeLists(n) ==
    { [k \in 1..n |-> Node(k, p[k][1], p[k][2])] : p \in [1..n -> Xs \X Ranks] }

\* every list of m edges between the nodes 1..n (self-loops and parallel edges included)
EdgeLists(m, n) ==
    { [k \in 1..m |-> Edge(p[k][1], p[k][2])] : p \in [1..m -> (1..n) \X (1..n)] }

\* group boxes: around every node, around the nodes at x = 0, and off the node row
BoxAll == [x |-> 0, y |-> 0, width |-> 3, height |-> 1]

BoxLeft == [x |-> 0, y |-> 0, width |-> 1, height |-> 1]

BoxOff == [x |-> 0, y |-> 1, width |-> 3, height |-> 1]

Boxes == {BoxAll, BoxLeft, BoxOff}

\* group forests: none, one group, two siblings, a parent and its child
GroupForests ==
    {<< >>}
    \cup { << Group("g1", b, << >>) >> : b \in Boxes }
    \cup { << Group("g1", b, << >>), Group("g2", c, << >>) >> : b \in Boxes, c \in Boxes }
    \cup { << Group("g1", b, << Group("g2", c, << >>) >>) >> : b \in Boxes, c \in Boxes }

\* layouts rich in topology, without groups
TopoLayouts ==
    UNION { { Graph(ns, es, << >>) : ns \in NodeLists(n),
                                     es \in UNION { EdgeLists(m, n) : m \in 0..MaxEdges } }
            : n \in 1..MaxNodes }

\* small layouts with every group forest
GroupLayouts ==
    UNION { { Graph(ns, es, gs) : ns \in NodeLists(n),
                                  es \in UNION { EdgeLists(m, n) : m \in 0..1 },
                                  gs \in GroupForests }
            : n \in 0..2 }

\* the scenarios of the specification and their relatives, on three nodes
Chain3 == << Node(1, 0, 0), Node(2, 0, 1), Node(3, 0, 2) >>

Row3 == << Node(1, 2, 0), Node(2, 1, 0), Node(3, 1, 0) >>

ScenarioLayouts ==
    { Graph(Chain3, << Edge(1, 2), Edge(2, 3) >>, << >>),
      Graph(Chain3, << Edge(1, 2) >>, << >>),
      Graph(<< Node(1, 0, 1), Node(2, 0, 1), Node(3, 1, 0) >>,
            << Edge(3, 1), Edge(3, 2) >>, << >>),
      Graph(Chain3, << Edge(1, 2), Edge(1, 3), Edge(2, 3) >>, << >>),
      Graph(Chain3, << Edge(1, 2), Edge(2, 3), Edge(3, 1) >>, << >>),
      Graph(Chain3, << Edge(2, 3), Edge(1, 3), Edge(3, 3) >>,
            << Group("g1", BoxAll, << Group("g2", BoxLeft, << >>) >>) >>),
      Graph(Row3, << >>, << Group("g1", BoxAll, << >>) >>),
      Graph(Row3, << Edge(1, 2), Edge(2, 3), Edge(1, 3) >>, << >>),
      Graph(Row3, << Edge(3, 1), Edge(2, 1) >>, << Group("g1", BoxLeft, << >>) >>),
      Graph(<< Unranked(1, 1), Node(2, 0, 0), Node(3, 0, 1) >>, << Edge(2, 3) >>, << >>),
      Graph(<< Node(1, 0, 1), Unranked(2, 0), Unranked(3, 1) >>,
            << Edge(2, 1), Edge(1, 3) >>, << >>) }

\* layouts for the renderer: one edge of every style, arrowhead and point list
PointLists ==
    { << Point(0, 0) >>,
      << Point(0, 0), Point(0, 40) >>,
      << Point(0, 0), Point(0, 5) >>,
      << Point(0, 0), Point(0, 40), Point(30, 40) >>,
      << Point(0, 0), Point(0, 40), Point(0, 44) >> }

EdgeStyles == {"solid", "dotted", "thick"}

\* an edge with a label
Labelled(edge) == [f \in (DOMAIN edge) \cup {"label"} |->
                      IF f = "label" THEN "label" ELSE edge[f]]

UnlabelledRenderEdges ==
    { [source |-> 1, target |-> 2, style |-> st, hasArrowStart |-> as,
       hasArrowEnd |-> ae, points |-> pl] :
          st \in EdgeStyles, as \in BOOLEAN, ae \in BOOLEAN, pl \in PointLists }

RenderEdges ==
    UnlabelledRenderEdges \cup { Labelled(e) : e \in UnlabelledRenderEdges }

RenderLayouts ==
    { Graph(ns, << e >>, gs) :
          ns \in { << Node(1, 0, 0), Node(2, 1, 1) >>, << Node(1, 1, 0), Node(2, 0, 0) >> },
          e \in RenderEdges,
          gs \in { << >>, << Group("g1", BoxAll, << Group("g2", BoxLeft, << >>) >>) >> } }

\* the `animate` options: off, true, or an object that overrides one field
AnimateTrue == [kind |-> "true"]

AnimateOff == [kind |-> "off"]

Override(f, v) == [kind |-> "object", fields |-> [x \in {f} |-> v], undef |-> {}]

Durations == {-100, 0, 50}

Staggers == {-80, 80}

GroupDelays == {-500, -60}

NodeOverlaps == {-50, 0, 100, 150}

AllAnimates ==
    {AnimateTrue}
    \cup { Override("duration", v) : v \in Durations }
    \cup { Override("stagger", v) : v \in Staggers }
    \cup { Override("groupDelay", v) : v \in GroupDelays }
    \cup { Override("nodeOverlap", v) : v \in NodeOverlaps }

FewAnimates ==
    { AnimateTrue, Override("stagger", 80), Override("stagger", -80),
      Override("nodeOverlap", 150), Override("duration", -100) }

\* animate: { f: v, g: w }
Override2(f, v, g, w) == [kind |-> "object", fields |-> (f :> v) @@ (g :> w), undef |-> {}]

\* animate: { f: undefined } and { f: undefined, g: w }
OverrideUndefined(f) == [kind |-> "object", fields |-> EmptyMap, undef |-> {f}]

OverrideUndefined2(f, g, w) == [kind |-> "object", fields |-> [x \in {g} |-> w], undef |-> {f}]

\* the `animate` options resolveAnimation is called with on its own
ResolveInputs ==
    AllAnimates
    \cup {AnimateOff, Override2("duration", 650, "edgeAnimation", "fade")}
    \cup { OverrideUndefined(f) : f \in OptionNames }
    \cup { OverrideUndefined2(f, "stagger", 80) : f \in OptionNames \ {"stagger"} }

\* what a caller writes into a field of the record it got
ChangedFields == {"duration", "stagger", "groupDelay", "nodeOverlap"}

ChangedValues == {1, 2}

RenderAnimates ==
    { AnimateOff, AnimateTrue, Override("edgeAnimation", "fade"),
      Override2("duration", 50, "edgeAnimation", "draw"),
      Override("edgeEasing", << "cubic-bezier(", ".", "2", ",", "0", ",", "1", ",", "1", ")" >>),
      Override("edgeEasing", << "toString" >>),
      Override("edgeAnimation", "none"), Override("nodeAnimation", "none"),
      Override("nodeAnimation", "scale"),
      Override("reducedMotion", FALSE) }

\* the calls of computeDelays: (layout, animate)
DelayCalls ==
    (TopoLayouts \X FewAnimates)
    \cup (GroupLayouts \X AllAnimates)
    \cup (ScenarioLayouts \X AllAnimates)

\* the calls of renderSvg: (layout, animate)
RenderCalls == RenderLayouts \X RenderAnimates

\* the calls of a caller that keeps a schedule and calls again
RepeatCalls == ScenarioLayouts \X FewAnimates

(***************************************************************************)
(* The easing strings cssEasingToSmil is called with.  A number is given   *)
(* with its text and its value in thousandths.                             *)
(***************************************************************************)
\* decimal numbers of the x coordinates of a control point (0 <= x <= 1)
XNumbers ==
    { [text |-> << "0" >>, milli |-> 0],
      [text |-> << "1" >>, milli |-> 1000],
      [text |-> << "1", ".", "0" >>, milli |-> 1000],
      [text |-> << "0", ".", "2", "5" >>, milli |-> 250],
      [text |-> << "0", ".", "4", "2" >>, milli |-> 420],
      [text |-> << ".", "4", "2" >>, milli |-> 420],
      [text |-> << "0", ".", "4", "2", "0" >>, milli |-> 420],
      [text |-> << "0", ".", "5", "8" >>, milli |-> 580] }

\* decimal numbers of the y coordinates, which CSS lets leave [0, 1]
YNumbers ==
    XNumbers \cup
    { [text |-> << "0", ".", "1" >>, milli |-> 100],
      [text |-> << "-", "0", ".", "5", "5" >>, milli |-> -550],
      [text |-> << "1", ".", "5", "5" >>, milli |-> 1550] }

\* the spaces around the arguments: [before, after] each argument
Spacings == { [before |-> << >>, after |-> << >>],
              [before |-> << " " >>, after |-> << >>],
              [before |-> << " ", " " >>, after |-> << " " >>] }

\* the text cubic-bezier(x1, y1, x2, y2)
CubicBezier(args, sp) ==
    << "cubic-bezier(" >>
        \o sp.after \o args[1].text \o sp.after \o << "," >>
        \o sp.before \o args[2].text \o sp.after \o << "," >>
        \o sp.before \o args[3].text \o sp.after \o << "," >>
        \o sp.before \o args[4].text \o sp.after \o << ")" >>

ArgLists == XNumbers \X YNumbers \X XNumbers \X YNumbers

ExplicitEasings == { CubicBezier(a, sp) : a \in ArgLists, sp \in Spacings }

NamedEasings == { << n >> : n \in DOMAIN NAMED_EASINGS }

\* strings that are neither a named curve nor a cubic-bezier expression
OtherEasings ==
    { << >>,
      << "step-end" >>,
      << "EASE" >>,
      << "ease", " " >>,
      << "constructor" >>,
      << "toString" >>,
      << "__proto__" >>,
      << "cubic-bezier(", "0", ",", "0", ",", "1", ")" >>,
      << "cubic-bezier(", "0", ",", "0", ",", "1", ",", "1" >>,
      << "cubic-bezier(", "0", " ", "0", " ", "1", " ", "1", ")" >>,
      << "cubic-bezier(", "1", ".", "2", ".", "3", ",", ".", ",", "1", ",", "1", ")" >>,
      << "cubic-bezier(", "a", ",", "0", ",", "1", ",", "1", ")" >>,
      << "CUBIC-BEZIER(", "0", ",", "0", ",", "1", ",", "1", ")" >>,
      << "steps(", "4", ",", "e", "n", "d", ")" >> }

EasingInputs == NamedEasings \cup ExplicitEasings \cup OtherEasings

(***************************************************************************)
(* State machine                                                           *)
(***************************************************************************)
\* the state between calls
Idle ==
    /\ pc = "idle"
    /\ mode = "none"
    /\ graph = Null
    /\ opts = Null
    /\ graph0 = Null
    /\ opts0 = Null
    /\ animate = Null
    /\ nodes = EmptyMap
    /\ edges = EmptyMap
    /\ groups = EmptyMap
    /\ incomingEdges = EmptyMap
    /\ rankBuckets = EmptyMap
    /\ sortedRanks = << >>
    /\ ri = 1
    /\ bi = 0
    /\ visits = EmptyMap
    /\ drawn = << >>
    /\ easingIn = Null
    /\ smil = Null
    /\ svg = Null

Init ==
    /\ Idle
    /\ memo = Null
    /\ defaultsObject = DEFAULTS

KeepMap(old) == old

\* new Map(): an empty map, whatever an earlier call left behind
NewMap(old) == EmptyMap

\* computeDelays(graph, opts), lines 90-116: the maps, the incoming-edge
\* index, the sorted rank buckets and the sorted ranks
Enter(g, o) ==
    /\ graph' = [g EXCEPT !.nodes = NodesAfterBucketing(g.nodes)]
    /\ opts' = o
    /\ graph0' = g
    /\ opts0' = o
    /\ nodes' = NewMap(nodes)
    /\ edges' = NewMap(edges)
    /\ groups' = NewMap(groups)
    /\ incomingEdges' = BuildIncomingEdges(g)
    /\ rankBuckets' = BuildRankBuckets(g)
    /\ sortedRanks' = SortAscending(DOMAIN BuildRankBuckets(g))
    /\ ri' = 1
    /\ bi' = 0
    /\ visits' = EmptyMap
    /\ pc' = "nodes"

\* a caller resolves its `animate` option and calls computeDelays with it
CallComputeDelays(g, a) ==
    /\ resolveAnimation(a) # Null
    /\ mode' = "delays"
    /\ animate' = a
    /\ Enter(g, resolveAnimation(a))
    /\ UNCHANGED << drawn, memo, defaultsObject, easingIn, smil, svg >>

\* one iteration of the loop over a bucket (animation.ts:123-149)
ProcessNode ==
    /\ pc = "nodes"
    /\ ri <= Len(sortedRanks)
    /\ LET rank   == sortedRanks[ri]
           bucket == rankBuckets[rank]
           node   == bucket[bi + 1]
           d      == NodeDelay(node, rank, bi, incomingEdges, edges, opts)
       IN /\ nodes' = MapSet(nodes, node.id, d)
          /\ edges' = SetOutgoing(graph, node.id, d, edges, opts)
          /\ visits' = MapSet(visits, node.id, MapGetOr0(visits, node.id) + 1)
          /\ IF bi + 1 < Len(bucket)
             THEN /\ bi' = bi + 1
                  /\ ri' = ri
             ELSE /\ bi' = 0
                  /\ ri' = ri + 1
    /\ UNCHANGED << pc, mode, graph, opts, graph0, opts0, animate, groups,
                    incomingEdges, rankBuckets, sortedRanks, drawn, memo, defaultsObject, easingIn, smil, svg >>

\* collectGroupDelays(graph.groups, graph.nodes, opts, nodes, groups) (animation.ts:153)
CollectGroups ==
    /\ pc = "nodes"
    /\ ri > Len(sortedRanks)
    /\ groups' = collectGroupDelays(graph.groups, graph.nodes, opts, nodes, groups)
    /\ pc' = "done"
    /\ UNCHANGED << mode, graph, opts, graph0, opts0, animate, nodes, edges,
                    incomingEdges, rankBuckets, sortedRanks, ri, bi, visits, drawn, memo, defaultsObject,
                    easingIn, smil, svg >>

\* the locals of a finished call are gone
ResetLocals ==
    /\ pc' = "idle"
    /\ mode' = "none"
    /\ graph' = Null
    /\ opts' = Null
    /\ graph0' = Null
    /\ opts0' = Null
    /\ animate' = Null
    /\ nodes' = EmptyMap
    /\ edges' = EmptyMap
    /\ groups' = EmptyMap
    /\ incomingEdges' = EmptyMap
    /\ rankBuckets' = EmptyMap
    /\ sortedRanks' = << >>
    /\ ri' = 1
    /\ bi' = 0
    /\ visits' = EmptyMap
    /\ drawn' = << >>
    /\ easingIn' = Null
    /\ smil' = Null
    /\ svg' = Null

\* return { nodes, edges, groups } (animation.ts:155); the caller uses the
\* schedule and drops it
Return ==
    /\ pc = "done"
    /\ mode = "delays"
    /\ ResetLocals
    /\ UNCHANGED << memo, defaultsObject >>

\* renderSvg(graph, ..., anim) with anim = resolveAnimation(animate):
\* const delays = anim ? computeDelays(graph, anim) : null (index.d.ts:361)
CallRenderSvg(g, a) ==
    /\ mode' = "render"
    /\ animate' = a
    /\ IF resolveAnimation(a) # Null
       THEN Enter(g, resolveAnimation(a))
       ELSE /\ graph' = g
            /\ opts' = Null
            /\ graph0' = g
            /\ opts0' = Null
            /\ pc' = "emit"
            /\ UNCHANGED << nodes, edges, groups, incomingEdges, rankBuckets,
                            sortedRanks, ri, bi, visits >>
    /\ UNCHANGED << drawn, memo, defaultsObject, easingIn, smil, svg >>

\* the body of renderSvg after the delays: the style block, the defs and
\* the five loops that emit the parts (index.d.ts:363-460)
EmitSvg ==
    /\ mode = "render"
    /\ pc \in {"done", "emit"}
    /\ LET r == [k \in 1..Len(graph.edges) |->
                    RenderOneEdge(graph.edges[k], k - 1, edges, opts)]
       IN /\ drawn' = [k \in 1..Len(graph.edges) |-> r[k].pts]
          /\ graph' = [graph EXCEPT !.edges = [k \in 1..Len(graph.edges) |-> r[k].edge]]
    /\ svg' = SvgDocument(graph, [nodes |-> nodes, edges |-> edges, groups |-> groups], opts)
    /\ pc' = "rendered"
    /\ UNCHANGED << mode, opts, graph0, opts0, animate, nodes, edges, groups,
                    incomingEdges, rankBuckets, sortedRanks, ri, bi, visits, memo, defaultsObject,
                    easingIn, smil >>

\* return parts.join('\n') (index.d.ts:460)
ReturnSvg ==
    /\ pc = "rendered"
    /\ ResetLocals
    /\ UNCHANGED << memo, defaultsObject >>

Next ==
    \/ /\ pc = "idle"
       /\ \E c \in DelayCalls : CallComputeDelays(c[1], c[2])
    \/ /\ pc = "idle"
       /\ \E c \in RenderCalls : CallRenderSvg(c[1], c[2])
    \/ ProcessNode
    \/ CollectGroups
    \/ Return
    \/ EmitSvg
    \/ ReturnSvg

Spec == Init /\ [][Next]_vars

\* the loops of computeDelays are sequential code: an iteration that can
\* run does run, and so does the call of collectGroupDelays after them
SpecTermination == Spec /\ WF_vars(ProcessNode) /\ WF_vars(CollectGroups)

(***************************************************************************)
(* Calls of resolveAnimation on its own, by a caller that changes the      *)
(* record it got and resolves `true` afterwards                            *)
(***************************************************************************)
\* const r = resolveAnimation(a)
CallResolveAnimation(a) ==
    /\ animate' = a
    /\ opts' = resolveAnimation(a)
    /\ pc' = "resolved"
    /\ UNCHANGED << mode, graph, graph0, opts0, nodes, edges, groups, incomingEdges,
                    rankBuckets, sortedRanks, ri, bi, visits, drawn, memo,
                    defaultsObject, easingIn, smil, svg >>

\* r[f] = v: the write reaches DEFAULTS only if r is the DEFAULTS object
ChangeResolved(f, v) ==
    /\ pc = "resolved"
    /\ opts # Null
    /\ opts' = MapSet(opts, f, v)
    /\ defaultsObject' = IF ReturnsDefaultsItself
                         THEN MapSet(defaultsObject, f, v)
                         ELSE defaultsObject
    /\ pc' = "changed"
    /\ UNCHANGED << mode, graph, graph0, opts0, animate, nodes, edges, groups,
                    incomingEdges, rankBuckets, sortedRanks, ri, bi, visits, drawn, memo,
                    easingIn, smil, svg >>

\* resolveAnimation(true), after the change
ResolveTrueLater ==
    /\ pc = "changed"
    /\ animate' = AnimateTrue
    /\ opts' = resolveAnimation(AnimateTrue)
    /\ pc' = "later"
    /\ UNCHANGED << mode, graph, graph0, opts0, nodes, edges, groups, incomingEdges,
                    rankBuckets, sortedRanks, ri, bi, visits, drawn, memo,
                    defaultsObject, easingIn, smil, svg >>

\* the caller drops the records; the module's DEFAULTS object stays
ReturnResolved ==
    /\ pc \in {"resolved", "later"}
    /\ ResetLocals
    /\ UNCHANGED << memo, defaultsObject >>

NextResolve ==
    \/ /\ pc = "idle"
       /\ \E a \in ResolveInputs : CallResolveAnimation(a)
    \/ \E f \in ChangedFields : \E v \in ChangedValues : ChangeResolved(f, v)
    \/ ResolveTrueLater
    \/ ReturnResolved

SpecResolve == Init /\ [][NextResolve]_vars

(***************************************************************************)
(* Calls of cssEasingToSmil                                                *)
(***************************************************************************)
\* cssEasingToSmil(e)
CallCssEasingToSmil(e) ==
    /\ easingIn' = e
    /\ smil' = cssEasingToSmil(e)
    /\ pc' = "converted"
    /\ UNCHANGED << mode, graph, opts, graph0, opts0, animate, nodes, edges, groups,
                    incomingEdges, rankBuckets, sortedRanks, ri, bi, visits, drawn, memo, defaultsObject,
                    svg >>

\* the caller takes the value
ReturnSmil ==
    /\ pc = "converted"
    /\ ResetLocals
    /\ UNCHANGED << memo, defaultsObject >>

NextEasing ==
    \/ /\ pc = "idle"
       /\ \E e \in EasingInputs : CallCssEasingToSmil(e)
    \/ ReturnSmil

SpecEasing == Init /\ [][NextEasing]_vars

(***************************************************************************)
(* A caller that keeps the schedule of one call and calls again: the       *)
(* schedule object a call returned stays alive in `nodes`, `edges`,        *)
(* `groups` until the next call makes its own maps.                        *)
(***************************************************************************)
\* the schedule the stepwise run has built is the one computeDelays defines
StepwiseIsComputeDelays ==
    pc = "done" => [nodes |-> nodes, edges |-> edges, groups |-> groups]
                       = computeDelays(graph0, opts0)

Result == [nodes |-> nodes, edges |-> edges, groups |-> groups]

ReturnToCaller ==
    /\ pc' = "idle"
    /\ mode' = "none"
    /\ graph' = Null
    /\ opts' = Null
    /\ graph0' = Null
    /\ opts0' = Null
    /\ animate' = Null
    /\ incomingEdges' = EmptyMap
    /\ rankBuckets' = EmptyMap
    /\ sortedRanks' = << >>
    /\ ri' = 1
    /\ bi' = 0
    /\ visits' = EmptyMap
    /\ UNCHANGED << nodes, edges, groups, drawn, easingIn, smil, svg >>

\* the caller keeps (layout, options, schedule) of this call
ReturnAndKeep ==
    /\ pc = "done"
    /\ mode = "delays"
    /\ memo = Null
    /\ memo' = [graph |-> graph0, opts |-> opts0, result |-> Result,
                since |-> 0, other |-> FALSE]
    /\ ReturnToCaller
    /\ UNCHANGED defaultsObject

\* the caller does not keep this call
ReturnAndDrop ==
    /\ pc = "done"
    /\ mode = "delays"
    /\ memo' = IF memo = Null THEN Null
               ELSE [memo EXCEPT !.since = @ + 1,
                                 !.other = @ \/ memo.graph # graph0 \/ memo.opts # opts0]
    /\ ReturnToCaller
    /\ UNCHANGED defaultsObject

NextCalls ==
    \/ /\ pc = "idle"
       /\ IF memo = Null THEN TRUE ELSE memo.since < MaxCalls
       /\ \E c \in RepeatCalls : CallComputeDelays(c[1], c[2])
    \/ ProcessNode
    \/ CollectGroups
    \/ ReturnAndKeep
    \/ ReturnAndDrop

SpecCalls == Init /\ [][NextCalls]_vars

(***************************************************************************)
(* Vocabulary of the properties, stated on the layout and the returned     *)
(* schedule alone (not on the intermediate state of the computation).      *)
(***************************************************************************)
\* the schedule is complete: computeDelays has filled the three maps
Scheduled == pc = "done"

NodeAt(k) == graph0.nodes[k]

EdgeAt(e) == graph0.edges[e + 1]

NodeIdx == 1..Len(graph0.nodes)

EdgeIdx == 0..(Len(graph0.edges) - 1)

\* node j comes before node k in the order of their rank: smaller x, or equal x
\* and earlier in the node list
EarlierInRank(j, k) ==
    /\ RankOf(NodeAt(j)) = RankOf(NodeAt(k))
    /\ \/ NodeAt(j).x < NodeAt(k).x
       \/ NodeAt(j).x = NodeAt(k).x /\ j < k

IndexInRank(k) == Cardinality({j \in NodeIdx : EarlierInRank(j, k)})

\* node j is scheduled before node k
ScheduledBefore(j, k) ==
    \/ RankOf(NodeAt(j)) < RankOf(NodeAt(k))
    \/ EarlierInRank(j, k)

\* the position in the node list of the node with id `id` (ids are unique)
IdxOf(id) == CHOOSE k \in NodeIdx : NodeAt(k).id = id

IsNodeId(id) == \E k \in NodeIdx : NodeAt(k).id = id

IncomingSet(k) == {e \in EdgeIdx : EdgeAt(e).target = NodeAt(k).id}

\* an edge that leads from an earlier scheduled node to a later one
ForwardEdge(e) ==
    /\ IsNodeId(EdgeAt(e).source)
    /\ IsNodeId(EdgeAt(e).target)
    /\ ScheduledBefore(IdxOf(EdgeAt(e).source), IdxOf(EdgeAt(e).target))

DurationUnits == opts0.duration * 100

OverlapUnits == opts0.duration * opts0.nodeOverlap

StaggerTerm(k) == IndexInRank(k) * opts0.stagger * 50

\* every group of the forest gs, at every depth
RECURSIVE AllGroups(_)
AllGroups(gs) ==
    IF Len(gs) = 0 THEN {}
    ELSE {Head(gs)} \cup AllGroups(Head(gs).children) \cup AllGroups(Tail(gs))

\* the nodes whose box lies in the box of group g
ContainedIn(g) ==
    {k \in NodeIdx : /\ NodeAt(k).x >= g.x
                     /\ NodeAt(k).x + NodeAt(k).width <= g.x + g.width
                     /\ NodeAt(k).y >= g.y
                     /\ NodeAt(k).y + NodeAt(k).height <= g.y + g.height}

(***************************************************************************)
(* C1                                                                      *)
(***************************************************************************)
\* C1: in the returned schedule, every edge whose source is a positioned
\* node has delay(edge) = delay(source node) + duration, self-loops,
\* parallel edges and edges to a lower or equal rank included.
C1_EdgeDelayIsSourcePlusDuration ==
    Scheduled =>
        \A e \in EdgeIdx :
            IsNodeId(EdgeAt(e).source) =>
                /\ e \in DOMAIN edges
                /\ edges[e] = nodes[EdgeAt(e).source] + DurationUnits

\* a finished schedule of a layout with a self-loop or an edge back to an
\* earlier node, and a pair of parallel edges, with a duration that counts
C1_Witness ==
    /\ Scheduled
    /\ opts0.duration > 0
    /\ \E e \in EdgeIdx : ~ForwardEdge(e)
    /\ \E e \in EdgeIdx : ForwardEdge(e) /\ edges[e] > DurationUnits

DelayWhenRead(e) == IF ForwardEdge(e) THEN edges[e] ELSE 0

C4_RootDelay ==
    Scheduled =>
        \A k \in NodeIdx :
            IncomingSet(k) = {} =>
                nodes[NodeAt(k).id] =
                    RankOf(NodeAt(k)) * opts0.stagger * 100 + StaggerTerm(k)

\* a root of rank above 0 that comes, in x order, after a node with incoming
\* edges which follows it in the node list, with a stagger that counts
C4_Witness ==
    /\ Scheduled
    /\ opts0.stagger # 0
    /\ \E k, j \in NodeIdx :
          /\ IncomingSet(k) = {}
          /\ IncomingSet(j) # {}
          /\ RankOf(NodeAt(k)) > 0
          /\ EarlierInRank(j, k)
          /\ j > k

(***************************************************************************)
(* C5                                                                      *)
(***************************************************************************)
GroupOffsetUnits == opts0.duration * 60 + opts0.groupDelay * 100

ContainedDelays(g) == {nodes[NodeAt(k).id] : k \in ContainedIn(g)}

\* C5: every group, at every depth, has
\* delay = (maximum delay among the nodes contained in it) + duration * 0.6
\*         + groupDelay, and a group that contains no node uses 0.
C5_GroupDelayFromMaxContained ==
    Scheduled =>
        \A g \in AllGroups(graph0.groups) :
            /\ g.id \in DOMAIN groups
            /\ groups[g.id] =
                   (IF ContainedIn(g) = {} THEN 0 ELSE SetMax(ContainedDelays(g)))
                       + GroupOffsetUnits

(***************************************************************************)
(* C6                                                                      *)
(***************************************************************************)
\* C6 as stated: for every layout and every configuration, each group's
\* delay is at least the delay of every node it contains.
C6_GroupNotBeforeItsNodes ==
    Scheduled =>
        \A g \in AllGroups(graph0.groups) : \A k \in ContainedIn(g) :
            /\ g.id \in DOMAIN groups
            /\ groups[g.id] >= nodes[NodeAt(k).id]

\* C6 as amended: whenever duration * 0.6 + groupDelay >= 0 (as with the
\* defaults 650 and 110), each group's delay is at least the delay of every
\* node it contains.
C6_GroupNotBeforeItsNodesIfOffsetNonNegative ==
    (Scheduled /\ GroupOffsetUnits >= 0) =>
        \A g \in AllGroups(graph0.groups) : \A k \in ContainedIn(g) :
            /\ g.id \in DOMAIN groups
            /\ groups[g.id] >= nodes[NodeAt(k).id]

\* a group whose first contained node has a larger delay than a later one,
\* in a schedule whose group offset is not negative
C6_Witness ==
    /\ Scheduled
    /\ GroupOffsetUnits >= 0
    /\ \E g \in AllGroups(graph0.groups) : \E j, k \in ContainedIn(g) :
          /\ j < k
          /\ nodes[NodeAt(j).id] > nodes[NodeAt(k).id]
          /\ nodes[NodeAt(k).id] >= 0

(***************************************************************************)
(* C7                                                                      *)
(***************************************************************************)
\* C7: every node delay, every edge delay and every group delay of the
\* returned schedule is >= 0, for every layout and every configuration.
C7_DelaysNonNegative ==
    Scheduled =>
        /\ \A id \in DOMAIN nodes : nodes[id] >= 0
        /\ \A e \in DOMAIN edges : edges[e] >= 0
        /\ \A id \in DOMAIN groups : groups[id] >= 0

(***************************************************************************)
(* C8                                                                      *)
(***************************************************************************)
\* the nearest valid configuration: duration >= 0, nodeOverlap in [0, 1]
Clamped(o) ==
    [o EXCEPT !.duration = Max2(0, @),
              !.nodeOverlap = IF @ < 0 THEN 0 ELSE IF @ > 100 THEN 100 ELSE @]

\* C8: resolveAnimation followed by computeDelays returns the schedule of
\* the clamped configuration (duration >= 0, nodeOverlap within [0, 1]).
C8_ScheduleOfClampedOptions ==
    Scheduled => Result = computeDelays(graph0, Clamped(resolveAnimation(animate)))

(***************************************************************************)
(* C9                                                                      *)
(***************************************************************************)
\* C9: a call with the layout and options of a call the caller kept returns
\* the schedule that call returned, whatever calls were made in between.
C9_SameInputSameSchedule ==
    (/\ Scheduled
     /\ memo # Null
     /\ memo.graph = graph0
     /\ memo.opts = opts0) => Result = memo.result

\* the kept call is repeated after a call on another input, on a layout
\* with edges and groups
C9_Witness ==
    /\ Scheduled
    /\ memo # Null
    /\ memo.graph = graph0
    /\ memo.opts = opts0
    /\ memo.other
    /\ DOMAIN edges # {}
    /\ DOMAIN groups # {}

(***************************************************************************)
(* C10                                                                     *)
(***************************************************************************)
\* C10: while computeDelays or renderSvg runs and when it has finished, the
\* layout (node list and order, node fields, edge points, group forest) and
\* the animation configuration are as they were when the call was entered.
C10_InputsUnchanged ==
    pc # "idle" => (graph = graph0 /\ opts = opts0)

\* renderSvg has drawn, in animated mode, an edge from a pulled-back point
\* list after computeDelays sorted a bucket whose x order is not list order
C10_Witness ==
    /\ pc = "rendered"
    /\ opts0 # Null
    /\ \E j, k \in 1..Len(graph0.nodes) :
          /\ j < k
          /\ RankOf(NodeAt(j)) = RankOf(NodeAt(k))
          /\ NodeAt(j).x > NodeAt(k).x
    /\ \E k \in 1..Len(graph0.edges) :
          /\ Len(drawn[k]) >= 2
          /\ drawn[k] # graph0.edges[k].points

(***************************************************************************)
(* C11                                                                     *)
(***************************************************************************)
\* C11: when every edge's source and target are positioned nodes and node
\* ids are unique, the schedule has one delay per node id, one per edge
\* index 0..|edges|-1 and one per group id of every depth, and no other key.
C11_ScheduleKeys ==
    (/\ Scheduled
     /\ \A e \in EdgeIdx : IsNodeId(EdgeAt(e).source) /\ IsNodeId(EdgeAt(e).target)
     /\ \A j, k \in NodeIdx : NodeAt(j).id = NodeAt(k).id => j = k) =>
        /\ DOMAIN nodes = {NodeAt(k).id : k \in NodeIdx}
        /\ DOMAIN edges = EdgeIdx
        /\ DOMAIN groups = {g.id : g \in AllGroups(graph0.groups)}

\* a schedule of a layout with two nodes, an edge and a group inside a group
C11_Witness ==
    /\ Scheduled
    /\ Len(graph0.nodes) >= 2
    /\ \E e \in EdgeIdx : EdgeAt(e).source # EdgeAt(e).target
    /\ \E g \in AllGroups(graph0.groups) : Len(g.children) > 0
    /\ Cardinality(DOMAIN groups) >= 2

(***************************************************************************)
(* C12                                                                     *)
(***************************************************************************)
\* the defaults the documentation lists (README.md:193-208), in model units
ListedDefaults ==
    [ duration      |-> 650,
      stagger       |-> 0,
      groupDelay    |-> 110,
      nodeOverlap   |-> 35,
      nodeEasing    |-> << "ease" >>,
      edgeEasing    |-> << "ease-in-out" >>,
      nodeAnimation |-> "fade",
      edgeAnimation |-> "draw",
      reducedMotion |-> TRUE ]

DigitValue ==
    ("0" :> 0) @@ ("1" :> 1) @@ ("2" :> 2) @@ ("3" :> 3) @@ ("4" :> 4)
    @@ ("5" :> 5) @@ ("6" :> 6) @@ ("7" :> 7) @@ ("8" :> 8) @@ ("9" :> 9)

\* the unsigned part of a number text
Unsigned(l) == IF Len(l) > 0 /\ l[1] = "-" THEN Tail(l) ELSE l

\* a decimal number: an optional minus sign, digits, at most one dot
IsDecimalNumber(l) ==
    LET body == Unsigned(l)
    IN /\ \A k \in 1..Len(body) : body[k] \in (DOMAIN DigitValue) \cup {"."}
       /\ Cardinality({k \in 1..Len(body) : body[k] = "."}) <= 1
       /\ \E k \in 1..Len(body) : body[k] \in DOMAIN DigitValue

RECURSIVE DigitsValue(_)
DigitsValue(ds) ==
    IF Len(ds) = 0 THEN 0
    ELSE DigitsValue(SubSeq(ds, 1, Len(ds) - 1)) * 10 + DigitValue[ds[Len(ds)]]

\* the value of a decimal number with at most three decimals, in thousandths
Milli(l) ==
    LET body == Unsigned(l)
        dots == {k \in 1..Len(body) : body[k] = "."}
        d    == IF dots = {} THEN Len(body) + 1 ELSE CHOOSE k \in dots : TRUE
        frac == SubSeq(body, d + 1, Len(body))
        pad  == [k \in 1..(3 - Len(frac)) |-> "0"]
        v    == DigitsValue(SubSeq(body, 1, d - 1)) * 1000 + DigitsValue(frac \o pad)
    IN IF Len(l) > 0 /\ l[1] = "-" THEN -v ELSE v

\* the pieces of s between the separators sep
RECURSIVE SplitOn(_, _)
SplitOn(s, sep) ==
    LET at == {k \in 1..Len(s) : s[k] = sep}
    IN IF at = {} THEN << s >>
       ELSE LET k == CHOOSE j \in at : \A i \in at : j <= i
            IN << SubSeq(s, 1, k - 1) >> \o SplitOn(SubSeq(s, k + 1, Len(s)), sep)

RECURSIVE Trim(_)
Trim(s) ==
    IF Len(s) > 0 /\ s[1] = " " THEN Trim(Tail(s))
    ELSE IF Len(s) > 0 /\ s[Len(s)] = " " THEN Trim(SubSeq(s, 1, Len(s) - 1))
    ELSE s

\* the four values of a list of four decimal numbers, << >> for any other list
FourValues(parts) ==
    IF Len(parts) = 4 /\ \A k \in 1..4 : IsDecimalNumber(parts[k])
    THEN [k \in 1..4 |-> Milli(parts[k])]
    ELSE << >>

\* the control points of a text that is a cubic-bezier expression with four
\* decimal numbers, << >> for any other text
CssControlPoints(text) ==
    IF Len(text) >= 2 /\ text[1] = "cubic-bezier(" /\ text[Len(text)] = ")"
    THEN LET parts == SplitOn(SubSeq(text, 2, Len(text) - 1), ",")
         IN FourValues([k \in 1..Len(parts) |-> Trim(parts[k])])
    ELSE << >>

\* the four numbers of a keySplines value "x1 y1 x2 y2", << >> if it is not one
SmilTuple(v) ==
    IF v.kind = "string" THEN FourValues(SplitOn(v.text, " ")) ELSE << >>

\* the control points CSS gives the named curves
CssNamedCurves ==
    ("ease"           :> << 250, 100, 250, 1000 >>)
    @@ ("ease-in"     :> << 420, 0, 1000, 1000 >>)
    @@ ("ease-out"    :> << 0, 0, 580, 1000 >>)
    @@ ("ease-in-out" :> << 420, 0, 580, 1000 >>)
    @@ ("linear"      :> << 0, 0, 1000, 1000 >>)

Converted == pc = "converted"

(***************************************************************************)
(* C13                                                                     *)
(***************************************************************************)
\* C13: for each of the five named curves, the tuple cssEasingToSmil returns
\* for the name and the tuple it returns for a cubic-bezier expression with
\* numerically equal control points are the same four numbers.
C13_NamedEqualsExplicit ==
    Converted =>
        \A n \in DOMAIN CssNamedCurves :
            CssControlPoints(easingIn) = CssNamedCurves[n] =>
                /\ SmilTuple(smil) # << >>
                /\ SmilTuple(smil) = SmilTuple(cssEasingToSmil(<< n >>))

\* the call on an expression equal in value to ease-in-out whose text is
\* not the text of the table entry
C13_Witness ==
    /\ Converted
    /\ CssControlPoints(easingIn) = CssNamedCurves["ease-in-out"]
    /\ smil # cssEasingToSmil(<< "ease-in-out" >>)
    /\ SmilTuple(smil) = << 420, 0, 580, 1000 >>

(***************************************************************************)
(* C14                                                                     *)
(***************************************************************************)
\* C14: for every cubic-bezier(x1, y1, x2, y2) with four decimal numbers,
\* negative and above-1 y values included, cssEasingToSmil returns the tuple
\* of those four numbers.
C14_ExplicitParsed ==
    (Converted /\ CssControlPoints(easingIn) # << >>) =>
        SmilTuple(smil) = CssControlPoints(easingIn)

(***************************************************************************)
(* C15                                                                     *)
(***************************************************************************)
\* the text 0 0 0.58 1
DefaultTuple == JsString(<< "0", " ", "0", " ", "0", ".", "5", "8", " ", "1" >>)

\* C15: for every string that is neither one of the five names nor a
\* cubic-bezier expression with four numbers, cssEasingToSmil returns the
\* default tuple 0 0 0.58 1, a string of four space-separated numbers.
C15_FallbackForOtherStrings ==
    (/\ Converted
     /\ easingIn \notin { << n >> : n \in DOMAIN CssNamedCurves }
     /\ CssControlPoints(easingIn) = << >>) =>
        /\ smil = DefaultTuple
        /\ SmilTuple(smil) # << >>

(***************************************************************************)
(* C16                                                                     *)
(***************************************************************************)
\* every edge leads from a rank to a strictly higher rank, and the options
\* are in range: duration >= 0, stagger >= 0, 0 <= nodeOverlap <= 1
AscendingInRange ==
    /\ \A e \in EdgeIdx :
          /\ IsNodeId(EdgeAt(e).source)
          /\ IsNodeId(EdgeAt(e).target)
          /\ RankOf(NodeAt(IdxOf(EdgeAt(e).source))) < RankOf(NodeAt(IdxOf(EdgeAt(e).target)))
    /\ opts0.duration >= 0
    /\ opts0.stagger >= 0
    /\ opts0.nodeOverlap >= 0
    /\ opts0.nodeOverlap <= 100

Rendered == pc = "rendered"

PartIdx == 1..Len(svg.parts)

\* the SMIL children with tag `tag` of the elements of part p
SmilOf(p, tag) ==
    UNION { { el.smil[j] : j \in {i \in 1..Len(el.smil) : el.smil[i].tag = tag} } :
                el \in {svg.parts[p].content[k] : k \in 1..Len(svg.parts[p].content)} }

\* the ids of the path elements of part p
PathIdsOf(p) ==
    {svg.parts[p].content[k].id :
        k \in {i \in 1..Len(svg.parts[p].content) : svg.parts[p].content[i].tag = "path"}}

(***************************************************************************)
(* C17                                                                     *)
(***************************************************************************)
\* C17: in animated rendering with edgeAnimation 'draw', for every
\* non-dotted edge the draw animation of the line and the motion animation
\* of each arrowhead have the same begin (the edge's delay, in whole
\* milliseconds), the same dur and the same keySplines (those of
\* edgeEasing), and each arrowhead's mpath names the edge's own path.
C17_ArrowSyncedWithLine ==
    (Rendered /\ opts0 # Null) =>
        \A p \in PartIdx :
            (/\ svg.parts[p].what = "edge"
             /\ opts0.edgeAnimation = "draw"
             /\ graph0.edges[svg.parts[p].of + 1].style # "dotted") =>
                /\ Cardinality(SmilOf(p, "animate")) = 1
                /\ PathIdsOf(p) = {PathId(svg.parts[p].of)}
                /\ \A a \in SmilOf(p, "animate") :
                      /\ a.begin = ToFixed3(edges[svg.parts[p].of])
                      /\ a.dur = opts0.duration
                      /\ a.keySplines = cssEasingToSmil(opts0.edgeEasing)
                      /\ \A m \in SmilOf(p, "animateMotion") :
                            /\ m.begin = a.begin
                            /\ m.dur = a.dur
                            /\ m.keySplines = a.keySplines
                            /\ m.mpath \in PathIdsOf(p)

\* a drawn edge with an arrowhead at each end, a delay above 0 and an
\* explicit cubic-bezier edgeEasing
C17_Witness ==
    /\ Rendered
    /\ opts0 # Null
    /\ opts0.edgeAnimation = "draw"
    /\ CssControlPoints(opts0.edgeEasing) # << >>
    /\ \E p \in PartIdx :
          /\ svg.parts[p].what = "edge"
          /\ Cardinality(SmilOf(p, "animateMotion")) = 2
          /\ \A m \in SmilOf(p, "animateMotion") : m.begin > 0

(***************************************************************************)
(* C18                                                                     *)
(***************************************************************************)
\* the elements of part p
ElementsOf(p) == {svg.parts[p].content[k] : k \in 1..Len(svg.parts[p].content)}

\* an element that starts hidden or carries a SMIL animation
EntersAnimated(el) == el.opacity0 \/ Len(el.smil) > 0

\* C18: with reducedMotion true the stylesheet has the reduced-motion block
\* and every element with a delayed or animated entrance (the classed
\* wrappers of nodes, groups and labels, the edge lines, the arrowheads) is
\* matched by one of the block's selectors; with reducedMotion false the
\* block is not emitted.
C18_ReducedMotionCoversAll ==
    (Rendered /\ opts0 # Null) =>
        /\ svg.style.reducedMotionBlock = opts0.reducedMotion
        /\ opts0.reducedMotion =>
              \A p \in PartIdx :
                  /\ svg.parts[p].class # "" =>
                        svg.parts[p].class \in svg.style.reducedMotionSelectors
                  /\ \A el \in ElementsOf(p) :
                        EntersAnimated(el) =>
                            \/ el.class \in svg.style.reducedMotionSelectors
                            \/ svg.parts[p].class \in svg.style.reducedMotionSelectors

(***************************************************************************)
(* C19                                                                     *)
(***************************************************************************)
\* C19: with animation disabled renderSvg does not use computeDelays, emits
\* no animation stylesheet, no animation class, no delay variable and no
\* SMIL element, and puts the arrow marker definitions into <defs>.
C19_StaticWhenDisabled ==
    (Rendered /\ animate = AnimateOff) =>
        /\ opts0 = Null
        /\ nodes = EmptyMap /\ edges = EmptyMap /\ groups = EmptyMap
        /\ visits = EmptyMap
        /\ svg.style = Null
        /\ svg.markerDefs
        /\ \A p \in PartIdx :
              /\ svg.parts[p].class = ""
              /\ svg.parts[p].d = Null
              /\ \A el \in ElementsOf(p) :
                    /\ el.class = ""
                    /\ ~EntersAnimated(el)

\* a static document with an edge that refers to both arrow markers, an
\* edge label, and the rects of a group and of the group inside it
C19_Witness ==
    /\ Rendered
    /\ animate = AnimateOff
    /\ \E p \in PartIdx :
          /\ svg.parts[p].what = "edge"
          /\ \E el \in ElementsOf(p) : el.markers = {"arrowhead", "arrowhead-start"}
    /\ \E p \in PartIdx : svg.parts[p].what = "edgeLabel"
    /\ \E p \in PartIdx :
          /\ svg.parts[p].what = "groupBackground"
          /\ Len(svg.parts[p].content) = 2

(***************************************************************************)
(* C20                                                                     *)
(***************************************************************************)
\* the loop of computeDelays is about to process a node
AtNode == pc = "nodes" /\ ri <= Len(sortedRanks)

\* the node the loop is about to process
CurrentNode == rankBuckets[sortedRanks[ri]][bi + 1]

\* C20: computeDelays processes the ranks in ascending order and the nodes
\* of a rank by ascending x, ties in node-list order: when a node is about
\* to be processed, the nodes that have a delay are exactly those of a lower
\* rank and those of its rank that have a smaller x, or the same x and an
\* earlier place in the node list, and the loop index i is their number in
\* its rank.
C20_ProcessingOrder ==
    AtNode =>
        LET c == IdxOf(CurrentNode.id)
        IN /\ NodeAt(c) = CurrentNode
           /\ sortedRanks[ri] = RankOf(CurrentNode)
           /\ DOMAIN nodes = {NodeAt(j).id : j \in {k \in NodeIdx : ScheduledBefore(k, c)}}
           /\ bi = IndexInRank(c)
           /\ \A id \in DOMAIN visits : visits[id] = 1

\* the loop is about to process the second node of the second rank, which
\* has the x of the first one and follows it in the node list, while the
\* node of the first rank is the last of the node list
C20_Witness ==
    /\ AtNode
    /\ ri = 2
    /\ bi = 1
    /\ \E j \in NodeIdx :
          /\ j < IdxOf(CurrentNode.id)
          /\ EarlierInRank(j, IdxOf(CurrentNode.id))
          /\ NodeAt(j).x = CurrentNode.x
    /\ \E k \in NodeIdx :
          /\ k > IdxOf(CurrentNode.id)
          /\ RankOf(NodeAt(k)) < RankOf(CurrentNode)

(***************************************************************************)
(* C21                                                                     *)
(***************************************************************************)
\* an incoming edge whose source is a positioned node that is scheduled
\* with or after the edge's target: a source of a higher rank, a later node
\* of the same rank, or the target itself
UnprocessedSource(e) ==
    /\ IsNodeId(EdgeAt(e).source)
    /\ IsNodeId(EdgeAt(e).target)
    /\ ~ForwardEdge(e)

\* C21: a node all of whose incoming edges come from sources that are not
\* processed before it has
\* delay = duration - duration * nodeOverlap + indexInRank * (stagger * 0.5),
\* and each of these edges ends with delay(source) + duration.
C21_UnprocessedSourceCountsAsZero ==
    Scheduled =>
        \A k \in NodeIdx :
            (IncomingSet(k) # {} /\ \A e \in IncomingSet(k) : UnprocessedSource(e)) =>
                /\ nodes[NodeAt(k).id] = DurationUnits - OverlapUnits + StaggerTerm(k)
                /\ \A e \in IncomingSet(k) :
                      /\ e \in DOMAIN edges
                      /\ edges[e] = nodes[EdgeAt(e).source] + DurationUnits

(***************************************************************************)
(* C22                                                                     *)
(***************************************************************************)
\* the marker ids arrowMarkerDefs() defines (index.d.ts:572-583)
arrowMarkerDefs == {"arrowhead", "arrowhead-start"}

\* the markers defined in the <defs> of the rendered document
DefinedMarkers == IF svg.markerDefs THEN arrowMarkerDefs ELSE {}

\* C22: in every rendered document, static or animated, each marker-end or
\* marker-start reference of an edge names a marker that the document's
\* <defs> defines.
C22_MarkerReferencesDefined ==
    Rendered =>
        \A p \in PartIdx : \A el \in ElementsOf(p) :
            el.markers \subseteq DefinedMarkers

(***************************************************************************)
(* C23                                                                     *)
(***************************************************************************)
\* the parts of kind `what` in a document
PartsOf(doc, what) == {p \in 1..Len(doc.parts) : doc.parts[p].what = what}

\* the number of elements a document emits for the top-level group `id`
\* in its parts of kind `what`
EmittedFor(doc, what, id) ==
    LET ps == {p \in PartsOf(doc, what) : doc.parts[p].of = id}
    IN IF ps = {} THEN 0
       ELSE Len(doc.parts[CHOOSE p \in ps : TRUE].content)

\* the static document of the layout that was rendered
StaticDocument ==
    SvgDocument(graph0, [nodes |-> EmptyMap, edges |-> EmptyMap, groups |-> EmptyMap], Null)

\* C23: an animated document has a background rectangle and a header label
\* for exactly the groups the static document of the same layout has, the
\* nested groups of every depth included, and each animated group carries
\* the delay computeDelays gave to its id.
C23_AnimatedDrawsSameGroups ==
    (Rendered /\ opts0 # Null) =>
        \A what \in {"groupBackground", "groupLabel"} :
            /\ \A k \in 1..Len(graph0.groups) :
                  EmittedFor(svg, what, graph0.groups[k].id)
                      = EmittedFor(StaticDocument, what, graph0.groups[k].id)
            /\ \A p \in PartsOf(svg, what) :
                  /\ svg.parts[p].of \in DOMAIN groups
                  /\ svg.parts[p].d = groups[svg.parts[p].of]

(***************************************************************************)
(* C24                                                                     *)
(***************************************************************************)
\* the keyframe animation the stylesheet applies to part p through the
\* class of its wrapper ("none" if no class rule matches)
KeyframeOf(p) ==
    IF svg.parts[p].class \in DOMAIN svg.style.rules
    THEN svg.style.rules[svg.parts[p].class].keyframe
    ELSE "none"

\* C24: with nodeAnimation 'none' no node of the animated document has a
\* keyframe animation applied: its wrapper is matched by no animating class
\* rule, whatever its delay.
C24_NoNodeAnimationWhenNone ==
    (Rendered /\ opts0 # Null) =>
        (opts0.nodeAnimation = "none" =>
            \A p \in PartsOf(svg, "node") : KeyframeOf(p) = "none")

(***************************************************************************)
(* C25                                                                     *)
(***************************************************************************)
\* the parts the document emits for edge i
EdgePartsOf(i) == {p \in PartsOf(svg, "edge") : svg.parts[p].of = i}

\* part p holds a path that is drawn by a SMIL animation beginning at `begin`
DrawnFrom(p, begin) ==
    \E el \in ElementsOf(p) :
        /\ el.tag = "path"
        /\ el.opacity0
        /\ \E j \in 1..Len(el.smil) :
              el.smil[j].tag = "animate" /\ el.smil[j].begin = begin

\* C25: in animated mode with edgeAnimation 'draw', a dotted edge is the
\* static edge markup (no draw animation) inside a wrapper whose class
\* fades it in after the edge's delay, and a solid or thick edge is a path
\* with the draw animation beginning at the edge's delay.
C25_DottedEdgeFadesInDrawMode ==
    (Rendered /\ opts0 # Null) =>
        (opts0.edgeAnimation = "draw" =>
            \A i \in EdgeIdx :
                (i \in DOMAIN edges /\ Len(EdgeAt(i).points) >= 2) =>
                    /\ Cardinality(EdgePartsOf(i)) = 1
                    /\ \A p \in EdgePartsOf(i) :
                          IF EdgeAt(i).style = "dotted"
                          THEN /\ svg.parts[p].content = renderEdgeSvg(EdgeAt(i))
                               /\ \A el \in ElementsOf(p) : ~EntersAnimated(el)
                               /\ KeyframeOf(p) \in FadeKeyframes
                               /\ svg.parts[p].d = edges[i]
                          ELSE /\ svg.parts[p].class = ""
                               /\ DrawnFrom(p, ToFixed3(edges[i])))

\* a dotted edge with both arrowheads and a bend, rendered in draw mode
\* after a positive delay, next to nodes that scale in
C25_Witness ==
    /\ Rendered
    /\ opts0 # Null
    /\ opts0.edgeAnimation = "draw"
    /\ opts0.nodeAnimation = "scale"
    /\ \E i \in EdgeIdx :
          /\ EdgeAt(i).style = "dotted"
          /\ EdgeAt(i).hasArrowEnd /\ EdgeAt(i).hasArrowStart
          /\ Len(EdgeAt(i).points) = 3
          /\ i \in DOMAIN edges
          /\ edges[i] > 0
          /\ \E p \in EdgePartsOf(i) : svg.parts[p].class = "an"

(***************************************************************************)
(* C26                                                                     *)
(***************************************************************************)
\* C26: an edge with an end arrowhead that is drawn by renderAnimatedEdge is
\* drawn from the point list renderEdge draws it from: the same points with
\* the same pulled-back end, also when its last segment is shorter than the
\* clearance of arrowhead width + 2.
C26_AnimatedPullBackAsStatic ==
    (Rendered /\ opts0 # Null) =>
        (opts0.edgeAnimation = "draw" =>
            \A k \in 1..Len(graph0.edges) :
                (graph0.edges[k].hasArrowEnd /\ (k - 1) \in DOMAIN edges) =>
                    drawn[k] = renderEdge(graph0.edges[k]).pts)

(***************************************************************************)
(* C27                                                                     *)
(***************************************************************************)
\* the box of group h lies within the box of group g
BoxWithin(h, g) ==
    /\ h.x >= g.x
    /\ h.x + h.width <= g.x + g.width
    /\ h.y >= g.y
    /\ h.y + h.height <= g.y + g.height

\* the position of group id in the order in which the group delays are set
SetPosition(id) ==
    LET order == collectGroupOrder(graph0.groups)
    IN CHOOSE k \in 1..Len(order) : order[k] = id

\* C27: for every group G and every group H nested in G, H's delay is set
\* before G's, and if H's box lies within G's box then
\* delay(G) >= delay(H).
C27_GroupDelayMonotoneAlongNesting ==
    Scheduled =>
        \A G \in AllGroups(graph0.groups) : \A H \in AllGroups(G.children) :
            /\ G.id \in DOMAIN groups
            /\ H.id \in DOMAIN groups
            /\ SetPosition(H.id) < SetPosition(G.id)
            /\ BoxWithin(H, G) => groups[G.id] >= groups[H.id]

\* a parent whose box holds its child's box and a node outside the child
\* that is later than every node of the child: the parent is strictly later
C27_Witness ==
    /\ Scheduled
    /\ \E G \in AllGroups(graph0.groups) : \E H \in AllGroups(G.children) :
          /\ BoxWithin(H, G)
          /\ ContainedIn(H) # {}
          /\ ContainedIn(H) # ContainedIn(G)
          /\ groups[G.id] > groups[H.id]

(***************************************************************************)
(* C28                                                                     *)
(***************************************************************************)
\* C28: for every layout (cycles, self-loops and parallel edges included) a
\* call of computeDelays that has entered its loops reaches its end; at the
\* end every node has been visited exactly once and has a delay; and during
\* the call no delay of a node is changed once it is set.
C28_TerminatesVisitingOnce ==
    /\ (pc = "nodes") ~> (pc = "done")
    /\ [](Scheduled =>
             \A k \in NodeIdx :
                 /\ NodeAt(k).id \in DOMAIN nodes
                 /\ NodeAt(k).id \in DOMAIN visits
                 /\ visits[NodeAt(k).id] = 1)
    /\ [][pc' # "idle" =>
             \A id \in DOMAIN nodes :
                 /\ id \in DOMAIN nodes'
                 /\ nodes'[id] = nodes[id]]_vars

\* a finished schedule of a layout with a cycle of two edges between two
\* nodes of different ranks
C28_Witness ==
    /\ Scheduled
    /\ \E e, f \in EdgeIdx :
          /\ EdgeAt(e).source = EdgeAt(f).target
          /\ EdgeAt(f).source = EdgeAt(e).target
          /\ EdgeAt(e).source # EdgeAt(e).target
          /\ RankOf(NodeAt(IdxOf(EdgeAt(e).source))) # RankOf(NodeAt(IdxOf(EdgeAt(e).target)))
          /\ nodes[EdgeAt(e).source] # nodes[EdgeAt(e).target]

(***************************************************************************)
(* C29                                                                     *)
(***************************************************************************)
\* C29: for every options object, one that carries a field set to undefined
\* included, the record resolveAnimation returns has all nine fields
\* defined; and after the caller has changed the record it got,
\* resolveAnimation(true) still returns the defaults.
C29_AllFieldsDefinedAndFresh ==
    /\ (pc = "resolved" /\ animate.kind # "off") => DOMAIN opts = OptionNames
    /\ pc = "later" => opts = DEFAULTS

(***************************************************************************)
(* C30                                                                     *)
(***************************************************************************)
Ranked(k) == "rank" \in DOMAIN NodeAt(k)

\* the layout with rank 0 written into every node that carries no rank
WithRankZero(g) ==
    [g EXCEPT !.nodes =
        [k \in 1..Len(g.nodes) |->
            IF "rank" \in DOMAIN g.nodes[k] THEN g.nodes[k]
            ELSE [f \in (DOMAIN g.nodes[k]) \cup {"rank"} |->
                     IF f = "rank" THEN 0 ELSE g.nodes[k][f]]]]

\* the nodes that carry rank 0 or no rank and come before node k by x, ties
\* in node-list order
BeforeAmongRankZero(k) ==
    {j \in NodeIdx :
        /\ ~Ranked(j) \/ NodeAt(j).rank = 0
        /\ \/ NodeAt(j).x < NodeAt(k).x
           \/ NodeAt(j).x = NodeAt(k).x /\ j < k}

\* C30: the schedule of a layout is the schedule of the same layout with
\* rank 0 written into every node that carries no rank, and a node without
\* rank and without incoming edge has delay
\* indexInRank * (stagger * 0.5), its index counted among the nodes of rank
\* 0 and the nodes without rank together.
C30_UnrankedAsRankZero ==
    Scheduled =>
        /\ Result = computeDelays(WithRankZero(graph0), opts0)
        /\ \A k \in NodeIdx :
              (~Ranked(k) /\ IncomingSet(k) = {}) =>
                  nodes[NodeAt(k).id]
                      = Cardinality(BeforeAmongRankZero(k)) * opts0.stagger * 50

\* a node without rank and without incoming edge that comes, by x, after a
\* node of rank 0, in a layout that also has a node of rank 1, with a
\* stagger that counts
C30_Witness ==
    /\ Scheduled
    /\ opts0.stagger # 0
    /\ \E k, j, h \in NodeIdx :
          /\ ~Ranked(k)
          /\ IncomingSet(k) = {}
          /\ Ranked(j) /\ NodeAt(j).rank = 0
          /\ j \in BeforeAmongRankZero(k)
          /\ Ranked(h) /\ NodeAt(h).rank = 1
          /\ nodes[NodeAt(k).id] # 0

=============================================================================
